---- MODULE Spec2Model ----
(***************************************************************************)
(* Model of the project-reset utility (scripts/reset-project.js) of the    *)
(* learn_react_native starter template, as documented in the README, and   *)
(* of the filesystem it mutates.                                           *)
(*                                                                         *)
(* The filesystem is a set of directory paths plus a map from file paths   *)
(* to file contents.  A path is a sequence of names below the project      *)
(* root.  One run of the script is a sequence of steps, one per            *)
(* filesystem call; each call either succeeds or throws into the script's  *)
(* single catch block.                                                     *)
(***************************************************************************)
EXTENDS Naturals, Integers, Sequences, FiniteSets, TLC

(***************************************************************************)
(* Program constants.                                                      *)
(***************************************************************************)

\* The directories named by the script's header comment.
SourceSet == {"app", "components", "hooks", "scripts", "constants"}

oldDirsNoScripts == <<"app", "components", "hooks", "constants">>

oldDirsNoApp == <<"components", "hooks", "constants", "scripts">>

oldDirs == <<"app", "components", "hooks", "constants", "scripts">>

exampleDirWrong == "example"

exampleDir == "app-example"

newAppDirWrong == "src"

newAppDir == "app"

indexContentWrong == "import { Text, View } from \"react-native\";\n"

indexContent == "import { Text, View } from \"react-native\";\n\nexport default function Index() {\n  return (\n    <View style={{ flex: 1, justifyContent: \"center\", alignItems: \"center\" }}>\n      <Text>Edit app/index.tsx to edit this screen.</Text>\n    </View>\n  );\n}"

layoutContent == "import { Stack } from \"expo-router\";\n\nexport default function RootLayout() {\n  return <Stack />;\n}"

IndexFile == "index.tsx"

LayoutFile == "_layout.tsx"

\* A file placed in every template directory, holding the name of the
\* directory it was created in.
MarkerFile == "marker.txt"

\* Content of a template file that already sits at a replacement path.
StaleContent == "stale"

(***************************************************************************)
(* Bounds of the model.                                                    *)
(***************************************************************************)

\* Most entries the archive directory holds before the run.
MaxArchived == 1

\* Longest answer line, in characters.
MaxLen == 1

(***************************************************************************)
(* The answer line and its normalisation.                                  *)
(***************************************************************************)

Whitespace == {" ", "\t"}

Alphabet == {"y", "Y", "n", " ", "x"}

Answers == UNION {[1..n -> Alphabet] : n \in 0..MaxLen}

RECURSIVE TrimStart(_)
TrimStart(s) ==
  IF s # <<>> /\ Head(s) \in Whitespace THEN TrimStart(Tail(s)) ELSE s

RECURSIVE TrimEnd(_)
TrimEnd(s) ==
  IF s # <<>> /\ s[Len(s)] \in Whitespace
  THEN TrimEnd(SubSeq(s, 1, Len(s) - 1))
  ELSE s

\* String.prototype.trim
Trim(s) == TrimEnd(TrimStart(s))

LowerChar(c) ==
  CASE c = "Y" -> "y"
    [] c = "N" -> "n"
    [] c = "X" -> "x"
    [] OTHER -> c

\* String.prototype.toLowerCase
ToLowerCase(s) == [k \in 1..Len(s) |-> LowerChar(s[k])]

NormaliseNoLower(answer) ==
  IF Trim(answer) = <<>> THEN <<"y">> ELSE Trim(answer)

NormaliseAnd(answer) ==
  IF ToLowerCase(Trim(answer)) = <<>> THEN <<>> ELSE <<"y">>

NormaliseDefaultNo(answer) ==
  IF ToLowerCase(Trim(answer)) = <<>> THEN <<"n">> ELSE ToLowerCase(Trim(answer))

\* const userInput = answer.trim().toLowerCase() || "y";
Normalise(answer) ==
  IF ToLowerCase(Trim(answer)) = <<>> THEN <<"y">> ELSE ToLowerCase(Trim(answer))

\* The one branch point: preserve by moving when the normalised answer is
\* the affirmative token, delete otherwise.
Preserve(userInput) == userInput = <<"y">>

(***************************************************************************)
(* The filesystem.                                                         *)
(***************************************************************************)

IsPrefix(p, q) == Len(p) <= Len(q) /\ SubSeq(q, 1, Len(p)) = p

Suffix(p, q) == SubSeq(q, Len(p) + 1, Len(q))

FilePaths(fs) == DOMAIN fs.files

\* fs.existsSync
Exists(fs, p) == p \in fs.dirs \/ p \in FilePaths(fs)

\* fs.promises.rename of a path onto a destination that does not exist
Rename(fs, old, new) ==
  LET To(p) == IF IsPrefix(old, p) THEN new \o Suffix(old, p) ELSE p
      From(q) == IF IsPrefix(new, q) THEN old \o Suffix(new, q) ELSE q
  IN [dirs |-> {To(p) : p \in fs.dirs},
      files |-> [q \in {To(p) : p \in FilePaths(fs)} |-> fs.files[From(q)]]]

\* fs.promises.rm with recursive: true
Rm(fs, p) ==
  [dirs |-> {q \in fs.dirs : ~IsPrefix(p, q)},
   files |-> [q \in {r \in FilePaths(fs) : ~IsPrefix(p, r)} |-> fs.files[q]]]

\* fs.promises.mkdir with recursive: true
Mkdir(fs, p) == [fs EXCEPT !.dirs = @ \cup {p}]

\* fs.promises.writeFile
WriteFile(fs, p, content) ==
  [fs EXCEPT !.files =
     [q \in FilePaths(fs) \cup {p} |-> IF q = p THEN content ELSE fs.files[q]]]

(***************************************************************************)
(* State of one run.                                                       *)
(***************************************************************************)

VARIABLES
  fs,         \* the filesystem below the project root
  fs0,        \* the filesystem when the script was started
  fault,      \* the filesystem call the environment makes fail, if any
  answer,     \* the line read from standard input
  userInput,  \* the normalised answer
  pc,         \* position of the script
  i,          \* index into oldDirs of the directory processed next
  ops,        \* filesystem calls attempted so far, in order
  reported,   \* whether the catch block has printed an error
  exitCode,   \* exit code of the process, -1 while it runs
  scheme,     \* the system colour scheme: "light", "dark" or "null"
  hasHydrated,      \* useState flag of the web colour-scheme hook
  effectPending,    \* the mount effect is scheduled and has not run
  dirty,            \* a state or scheme change awaits a re-render
  renders,          \* renders of the component so far
  rendered,         \* what the hooks returned at the last render
  inflight,   \* filesystem calls begun and not yet settled, oldest first
  themed,     \* the last call of useThemeColor: its arguments and result
  auth,       \* state of the AuthProvider component
  loc,        \* state of the component that uses useLocation
  lint        \* state of one ESLint configuration lookup

resetVars == <<fs, fs0, fault, answer, userInput, pc, i, ops, reported, exitCode>>

hookVars == <<scheme, hasHydrated, effectPending, dirty, renders, rendered>>

\* State of the components and of the linter, which the reset script
\* never reads or writes.
appVars == <<auth, loc, lint>>

vars == <<resetVars, inflight, hookVars, themed, appVars>>

NoFault == <<"none", "none">>

\* Calls that can be made to fail: the move or delete of one source
\* directory, the creation of a directory, a move into a read-only
\* archive, the write of a replacement file.
FaultPoints ==
  {<<"dirop", d>> : d \in SourceSet}
    \cup {<<"mkdir", exampleDir>>, <<"mkdir", newAppDir>>, <<"readonly", exampleDir>>}
    \cup {<<"write", IndexFile>>, <<"write", LayoutFile>>}

\* Most renders of the component that uses the hooks.
MaxRenders == 4

Schemes == {"light", "dark", "null"}

\* useColorScheme of react-native: the framework's primitive.
useRNColorScheme(system) == system

\* hooks/useColorScheme.ts: export { useColorScheme } from 'react-native'
useColorScheme(system) == useRNColorScheme(system)

useColorSchemeWebInverted(hydrated, system) ==
  IF hydrated THEN "light" ELSE useRNColorScheme(system)

\* hooks/useColorScheme.web.ts
useColorSchemeWeb(hydrated, system) ==
  LET colorScheme == useRNColorScheme(system)
  IN IF hydrated THEN colorScheme ELSE "light"

NotRendered == [rn |-> "none", native |-> "none", web |-> "none", hydrated |-> FALSE]

\* constants/Colors.ts
Colors ==
  [light |-> [text |-> "#11181C", background |-> "#fff", tint |-> "#0a7ea4",
              icon |-> "#687076", tabIconDefault |-> "#687076",
              tabIconSelected |-> "#0a7ea4"],
   dark |-> [text |-> "#ECEDEE", background |-> "#151718", tint |-> "#fff",
             icon |-> "#9BA1A6", tabIconDefault |-> "#9BA1A6",
             tabIconSelected |-> "#fff"]]

\* keyof typeof Colors.light & keyof typeof Colors.dark
ColorNames == DOMAIN Colors.light

\* An optional property that is not given.
Undefined == "undefined"

\* props: { light?: string; dark?: string }: each override is absent, the
\* empty string, or a colour.
PropsSet == [light : {Undefined, "", "#lightOverride"},
             dark : {Undefined, "", "#darkOverride"}]

\* if (v): undefined and the empty string are falsy.
Truthy(v) == v \notin {Undefined, ""}

useThemeColorDarkDefault(props, colorName, colorScheme) ==
  LET theme == IF colorScheme = "null" THEN "dark" ELSE colorScheme
      colorFromProps == props[theme]
  IN IF Truthy(colorFromProps) THEN colorFromProps ELSE Colors[theme][colorName]

\* hooks/useThemeColor.ts; colorScheme is what useColorScheme() returned.
useThemeColor(props, colorName, colorScheme) ==
  LET theme == IF colorScheme = "null" THEN "light" ELSE colorScheme
      colorFromProps == props[theme]
  IN IF Truthy(colorFromProps) THEN colorFromProps ELSE Colors[theme][colorName]

NotThemed ==
  [props |-> [light |-> Undefined, dark |-> Undefined], colorName |-> "none",
   colorScheme |-> "none", result |-> "none"]

\* The component before its first render.
HooksIdle ==
  /\ hasHydrated = FALSE
  /\ effectPending = FALSE
  /\ dirty = FALSE
  /\ renders = 0
  /\ rendered = NotRendered
  /\ themed = NotThemed

(***************************************************************************)
(* AuthProvider: the launch check and signOut, as functions of the         *)
(* component's state.                                                      *)
(***************************************************************************)

\* Most calls of signOut in one behaviour.
MaxSignOuts == 2

\* What validateToken can resolve with.
Users == {"ada", "bob"}

\* getToken resolves with a token, with null or with the empty string, or
\* rejects.
TokenOutcomes == {"tok", "", "null", "throws"}

ValidateOutcomes == Users \cup {"throws"}

\* useState(null), useState(true); the mount effect is scheduled.  token
\* and validated record what checkAuthState saw; afterSignOut is the user
\* at the moment the last signOut ended.
AuthInit ==
  [user |-> "null", isLoading |-> TRUE, check |-> "effect", token |-> "none",
   validated |-> FALSE, logged |-> FALSE, signOut |-> "idle", signOuts |-> 0,
   afterSignOut |-> "none"]

\* useEffect(() => { checkAuthState(); }, []): the call runs up to its
\* first await.
AuthEffectStep(a) == [a EXCEPT !.check = "getToken"]

\* finally { setIsLoading(false); }
Finally(a) == [a EXCEPT !.isLoading = FALSE, !.check = "done"]

\* catch (error) { console.error('Auth check failed:', error); }
CatchAuth(a) == Finally([a EXCEPT !.logged = TRUE])

\* const token = await getToken(); if (token) { ... }
GetTokenStep(a, out) ==
  IF out = "throws" THEN CatchAuth(a)
  ELSE IF out \notin {"null", ""}
       THEN [a EXCEPT !.token = out, !.check = "validateToken"]
       ELSE Finally([a EXCEPT !.token = out])

\* const userData = await validateToken(token); setUser(userData);
ValidateStep(a, out) ==
  IF out = "throws" THEN CatchAuth(a)
  ELSE Finally([a EXCEPT !.user = out, !.validated = TRUE])

\* signOut is called: it runs up to await removeToken().
SignOutStep(a) == [a EXCEPT !.signOut = "removeToken", !.signOuts = @ + 1]

\* removeToken settles: setUser(null) runs only when it resolved; a
\* rejection leaves signOut by its rejected promise.
RemoveTokenStep(a, resolved) ==
  IF resolved
  THEN [a EXCEPT !.user = "null", !.signOut = "done", !.afterSignOut = "null"]
  ELSE [a EXCEPT !.signOut = "rejected", !.afterSignOut = a.user]

(***************************************************************************)
(* useLocation: the mount effect, the position request and the cleanup.    *)
(***************************************************************************)

\* What getCurrentPositionAsync can resolve with.
Positions == {"here", "there"}

\* useState(null); the mount effect is scheduled.  cleaned and lateSets
\* record whether the cleanup has run and how often setLocation was called
\* after it.
LocInit ==
  [location |-> "null", effect |-> "scheduled", isMounted |-> FALSE,
   request |-> "none", cleaned |-> FALSE, sets |-> 0, lateSets |-> 0,
   logged |-> FALSE]

\* let isMounted = true; getLocation() runs up to its await.
LocationEffectStep(l) ==
  [l EXCEPT !.effect = "ran", !.isMounted = TRUE, !.request = "pending"]

PositionStepUnguarded(l, result) ==
  [l EXCEPT !.request = "resolved", !.location = result, !.sets = @ + 1,
            !.lateSets = IF l.cleaned THEN @ + 1 ELSE @]

\* The request resolves: if (isMounted) { setLocation(result); }
PositionStep(l, result) ==
  IF l.isMounted
  THEN [l EXCEPT !.request = "resolved", !.location = result, !.sets = @ + 1,
                 !.lateSets = IF l.cleaned THEN @ + 1 ELSE @]
  ELSE [l EXCEPT !.request = "resolved"]

\* The request rejects: console.error('Location error:', error)
PositionErrorStep(l) == [l EXCEPT !.request = "rejected", !.logged = TRUE]

\* return () => { isMounted = false; }
CleanupStep(l) == [l EXCEPT !.isMounted = FALSE, !.cleaned = TRUE]

(***************************************************************************)
(* eslint.config.js: the flat-config array and the cascade that computes   *)
(* the rules in force for one file.                                        *)
(***************************************************************************)

Rules == {"indent", "react/jsx-indent", "no-unused-vars", "react/react-in-jsx-scope"}

\* The formatting rules, which eslint-config-prettier turns off.
PrettierRules == {"indent", "react/jsx-indent"}

Unset == [r \in Rules |-> "unset"]

configArrayPrettierEarly == <<"js", "expo", "prettier", "react", "ignores">>

\* module.exports = defineConfig([...]): the entries, by name, in order.
configArray == <<"js", "expo", "react", "prettier", "ignores">>

\* What the recommended sets of the packages may turn on: the base set
\* knows no React rule, the React set only React rules.
ExtSet ==
  [js : {f \in [Rules -> {"unset", "error"}] :
           f["react/jsx-indent"] = "unset" /\ f["react/react-in-jsx-scope"] = "unset"},
   expo : [Rules -> {"unset", "error"}],
   react : {f \in [Rules -> {"unset", "error"}] :
              f["indent"] = "unset" /\ f["no-unused-vars"] = "unset"}]

LintFiles == {"app/index.tsx", "dist/bundle.js", "README.md"}

\* files: ['**/*.{js,jsx,mjs,cjs,ts,tsx}']
IsScript(file) == file \in {"app/index.tsx", "dist/bundle.js"}

\* ignores: ['dist/*']
Ignored(file) == file = "dist/bundle.js"

\* The entry has a rules key.
SetsRules(name) == name \in {"js", "expo", "react", "prettier"}

\* The entry has no key but ignores.
IgnoresOnly(name) == name = "ignores"

\* The rules key of an entry; the React block spreads the recommended
\* rules and then turns react/react-in-jsx-scope off.
EntryRules(name, ext) ==
  CASE name = "js" -> ext.js
    [] name = "expo" -> ext.expo
    [] name = "react" -> [ext.react EXCEPT !["react/react-in-jsx-scope"] = "off"]
    [] name = "prettier" -> [r \in Rules |-> IF r \in PrettierRules THEN "off" ELSE "unset"]
    [] OTHER -> Unset

\* Only the React block is restricted to files.
AppliesTo(name, file) == name # "react" \/ IsScript(file)

LintIdle ==
  [file |-> "none", ext |-> [js |-> Unset, expo |-> Unset, react |-> Unset],
   idx |-> 0, rules |-> Unset, ignored |-> FALSE]

\* The next entry of the array is merged: a later entry overrides an
\* earlier one rule by rule.
MergeStep(l) ==
  LET name == configArray[l.idx + 1]
      entry == EntryRules(name, l.ext)
  IN [l EXCEPT !.idx = @ + 1,
               !.rules = IF AppliesTo(name, l.file)
                         THEN [r \in Rules |->
                                 IF entry[r] # "unset" THEN entry[r] ELSE @[r]]
                         ELSE @,
               !.ignored = @ \/ (IgnoresOnly(name) /\ Ignored(l.file))]

\* The components are not mounted and no file is linted.
AppIdle ==
  /\ auth = AuthInit
  /\ loc = LocInit
  /\ lint = LintIdle

\* Paths of the project the script never names.
OtherFs ==
  [dirs |-> {<<"assets">>},
   files |-> (<<"assets", "icon.png">> :> "png") @@ (<<"package.json">> :> "{}")]

\* A template directory d: its marker file and, for app, a stale entry
\* point.
TemplateDirs(S) == {<<d>> : d \in S}

TemplateFiles(S) ==
  {<<d, MarkerFile>> : d \in S} \cup {<<d, IndexFile>> : d \in S \cap {"app"}}

\* An archive left by an earlier run, holding the entries A.
ArchiveDirs(A) == {<<exampleDir>>} \cup {<<exampleDir, d>> : d \in A}

ArchiveFiles(A) == {<<exampleDir, d, "archived.txt">> : d \in A}

InitialFs(S, hasArchive, A) ==
  [dirs |-> OtherFs.dirs \cup TemplateDirs(S)
              \cup (IF hasArchive THEN ArchiveDirs(A) ELSE {}),
   files |-> [p \in FilePaths(OtherFs) \cup TemplateFiles(S)
                      \cup (IF hasArchive THEN ArchiveFiles(A) ELSE {}) |->
                IF p \in FilePaths(OtherFs) THEN OtherFs.files[p]
                ELSE IF Len(p) = 2 /\ p[2] = MarkerFile THEN p[1]
                ELSE StaleContent]]

Init ==
  /\ \E S \in SUBSET SourceSet, hasArchive \in BOOLEAN :
       \E A \in {B \in SUBSET SourceSet : Cardinality(B) <= MaxArchived} :
         /\ hasArchive \/ A = {}
         /\ fs = InitialFs(S, hasArchive, A)
  /\ fs0 = fs
  /\ fault \in FaultPoints \cup {NoFault}
  /\ fault = <<"readonly", exampleDir>> => <<exampleDir>> \in fs.dirs
  /\ answer = <<>>
  /\ userInput = <<>>
  /\ pc = "prompt"
  /\ i = 1
  /\ ops = <<>>
  /\ reported = FALSE
  /\ exitCode = -1
  /\ inflight = <<>>
  /\ scheme = "light"
  /\ HooksIdle
  /\ AppIdle

(***************************************************************************)
(* Steps of the script, as functions of the run's state.                   *)
(***************************************************************************)

Cur ==
  [fs |-> fs, userInput |-> userInput, pc |-> pc, i |-> i, ops |-> ops,
   reported |-> reported, exitCode |-> exitCode, dirs |-> oldDirs]

CatchErrorRollback(s) ==
  [s EXCEPT !.pc = "failed", !.reported = TRUE, !.exitCode = 0, !.fs = fs0]

CatchErrorContinue(s) == [s EXCEPT !.reported = TRUE, !.i = @ + 1]

CatchErrorRetry(s) == [s EXCEPT !.reported = TRUE]

\* catch (error) { console.error(...) }: the error is printed and
\* swallowed, the callback returns and the process ends normally.
CatchError(s) == [s EXCEPT !.pc = "failed", !.reported = TRUE, !.exitCode = 0]

\* One filesystem call: logged, then it either throws into the catch
\* block or yields the new state.
Call(s, op, fails, ok) ==
  LET t == [s EXCEPT !.ops = Append(@, op)]
  IN IF fails THEN CatchError(t) ELSE [ok EXCEPT !.ops = t.ops]

QuestionStepMkdirFirst(s, line) ==
  IF <<exampleDir>> \notin s.fs.dirs
  THEN [s EXCEPT !.fs = Mkdir(@, <<exampleDir>>),
                 !.ops = Append(@, <<"mkdir", exampleDir>>)]
  ELSE [s EXCEPT !.userInput = Normalise(line), !.pc = "loop", !.i = 1]

\* (answer) => { const userInput = ...; /* process user choice */ }
QuestionStep(s, line) ==
  [s EXCEPT !.userInput = Normalise(line), !.pc = "loop", !.i = 1]

\* for (const dir of oldDirs): s.dirs is the list the loop runs over.
InLoop(s) == s.pc = "loop" /\ s.i <= Len(s.dirs)

CurDir(s) == s.dirs[s.i]

SkipStepThrows(s) == [s EXCEPT !.pc = "failed", !.reported = TRUE, !.exitCode = 0]

SkipStepBreak(s) == [s EXCEPT !.i = Len(s.dirs) + 1]

\* "does not exist, skipping": no filesystem call, on to the next name.
SkipStep(s) == [s EXCEPT !.i = @ + 1]

MkdirArchiveStep(s, f) ==
  Call(s, <<"mkdir", exampleDir>>, f = <<"mkdir", exampleDir>>,
       [s EXCEPT !.fs = Mkdir(@, <<exampleDir>>)])

MoveStep(s, f) ==
  LET d == CurDir(s)
  IN Call(s, <<"rename", d>>,
          \/ f = <<"dirop", d>>
          \/ f = <<"readonly", exampleDir>>
          \/ Exists(s.fs, <<exampleDir, d>>),
          [s EXCEPT !.fs = Rename(@, <<d>>, <<exampleDir, d>>), !.i = @ + 1])

DeleteStep(s, f) ==
  LET d == CurDir(s)
  IN Call(s, <<"rm", d>>, f = <<"dirop", d>>,
          [s EXCEPT !.fs = Rm(@, <<d>>), !.i = @ + 1])

MkdirAppStep(s, f) ==
  Call(s, <<"mkdir", newAppDir>>, f = <<"mkdir", newAppDir>>,
       [s EXCEPT !.fs = Mkdir(@, <<newAppDir>>), !.pc = "writeIndex"])

WriteIndexStep(s, f) ==
  Call(s, <<"write", IndexFile>>,
       f = <<"write", IndexFile>> \/ <<newAppDir>> \notin s.fs.dirs,
       [s EXCEPT !.fs = WriteFile(@, <<newAppDir, IndexFile>>, indexContent),
                 !.pc = "writeLayout"])

WriteLayoutStep(s, f) ==
  Call(s, <<"write", LayoutFile>>,
       f = <<"write", LayoutFile>> \/ <<newAppDir>> \notin s.fs.dirs,
       [s EXCEPT !.fs = WriteFile(@, <<newAppDir, LayoutFile>>, layoutContent),
                 !.pc = "done", !.exitCode = 0])

\* Guards of the loop body.
CanSkip(s) == InLoop(s) /\ ~Exists(s.fs, <<CurDir(s)>>)

CanMkdirArchive(s) ==
  /\ InLoop(s) /\ Exists(s.fs, <<CurDir(s)>>)
  /\ Preserve(s.userInput) /\ <<exampleDir>> \notin s.fs.dirs

CanMove(s) ==
  /\ InLoop(s) /\ Exists(s.fs, <<CurDir(s)>>)
  /\ Preserve(s.userInput) /\ <<exampleDir>> \in s.fs.dirs

CanDelete(s) ==
  InLoop(s) /\ Exists(s.fs, <<CurDir(s)>>) /\ ~Preserve(s.userInput)

CanMkdirApp(s) == s.pc = "loop" /\ s.i > Len(s.dirs)

Terminated(s) == s.pc \in {"done", "failed"}

\* The step the script takes next, after the answer has been read.
StepOf(s, f) ==
  CASE CanSkip(s) -> SkipStep(s)
    [] CanMkdirArchive(s) -> MkdirArchiveStep(s, f)
    [] CanMove(s) -> MoveStep(s, f)
    [] CanDelete(s) -> DeleteStep(s, f)
    [] CanMkdirApp(s) -> MkdirAppStep(s, f)
    [] s.pc = "writeIndex" -> WriteIndexStep(s, f)
    [] s.pc = "writeLayout" -> WriteLayoutStep(s, f)
    [] OTHER -> s

RECURSIVE RunToEnd(_, _)
RunToEnd(s, f) == IF Terminated(s) THEN s ELSE RunToEnd(StepOf(s, f), f)

\* The whole run from filesystem g with input line `line`, the loop
\* running over the list `order`.
RunInOrder(order, g, f, line) ==
  RunToEnd(QuestionStep([fs |-> g, userInput |-> <<>>, pc |-> "prompt", i |-> 1,
                         ops |-> <<>>, reported |-> FALSE, exitCode |-> -1,
                         dirs |-> order],
                        line), f)

\* The whole run from filesystem g with input line `line`.
RunFrom(g, f, line) == RunInOrder(oldDirs, g, f, line)

(***************************************************************************)
(* Actions.                                                                *)
(***************************************************************************)

Apply(s) ==
  /\ fs' = s.fs
  /\ userInput' = s.userInput
  /\ pc' = s.pc
  /\ i' = s.i
  /\ ops' = s.ops
  /\ reported' = s.reported
  /\ exitCode' = s.exitCode
  /\ inflight' = <<>>
  /\ UNCHANGED <<fs0, fault>>
  /\ UNCHANGED <<hookVars, themed, appVars>>

Question ==
  /\ pc = "prompt"
  /\ \E line \in Answers :
       /\ answer' = line
       /\ Apply(QuestionStep(Cur, line))

Skip == CanSkip(Cur) /\ Apply(SkipStep(Cur)) /\ UNCHANGED answer

MkdirArchive ==
  CanMkdirArchive(Cur) /\ Apply(MkdirArchiveStep(Cur, fault)) /\ UNCHANGED answer

MoveDir == CanMove(Cur) /\ Apply(MoveStep(Cur, fault)) /\ UNCHANGED answer

DeleteDir == CanDelete(Cur) /\ Apply(DeleteStep(Cur, fault)) /\ UNCHANGED answer

MkdirApp == CanMkdirApp(Cur) /\ Apply(MkdirAppStep(Cur, fault)) /\ UNCHANGED answer

WriteIndex ==
  pc = "writeIndex" /\ Apply(WriteIndexStep(Cur, fault)) /\ UNCHANGED answer

WriteLayout ==
  pc = "writeLayout" /\ Apply(WriteLayoutStep(Cur, fault)) /\ UNCHANGED answer

Next ==
  \/ Question
  \/ Skip
  \/ MkdirArchive
  \/ MoveDir
  \/ DeleteDir
  \/ MkdirApp
  \/ WriteIndex
  \/ WriteLayout

Spec == Init /\ [][Next]_vars

(***************************************************************************)
(* The run over the two choices, for comparing loop orders.                *)
(***************************************************************************)

\* One line for each choice: the default (preserve) and "n" (delete).
Choices == {<<>>, <<"n">>}

\* Projects whose archive, when there is one, holds at most the entry
\* hooks.
InitOrder ==
  /\ Init
  /\ \A d \in SourceSet \ {"hooks"} : <<exampleDir, d>> \notin fs.dirs

QuestionChoice ==
  /\ pc = "prompt"
  /\ \E line \in Choices :
       /\ answer' = line
       /\ Apply(QuestionStep(Cur, line))

NextOrder ==
  \/ QuestionChoice
  \/ Skip
  \/ MkdirArchive
  \/ MoveDir
  \/ DeleteDir
  \/ MkdirApp
  \/ WriteIndex
  \/ WriteLayout

SpecOrder == InitOrder /\ [][NextOrder]_vars

(***************************************************************************)
(* The run over longer input lines, in projects without an archive.        *)
(***************************************************************************)

\* Longest input line of SpecInput.
MaxLine == 2

\* Both cases of the two tokens, and the blanks.
LineAlphabet == {"y", "Y", "n", "N", " ", "\t"}

Lines == UNION {[1..n -> LineAlphabet] : n \in 0..MaxLine}

\* Projects that hold app and hooks, have no archive, and in which no call
\* fails.
InitInput ==
  /\ Init
  /\ fault = NoFault
  /\ {<<"app">>, <<"hooks">>} \subseteq fs.dirs
  /\ <<exampleDir>> \notin fs.dirs

QuestionLine ==
  /\ pc = "prompt"
  /\ \E line \in Lines :
       /\ answer' = line
       /\ Apply(QuestionStep(Cur, line))

NextInput ==
  \/ QuestionLine
  \/ Skip
  \/ MkdirArchive
  \/ MoveDir
  \/ DeleteDir
  \/ MkdirApp
  \/ WriteIndex
  \/ WriteLayout

SpecInput == InitInput /\ [][NextInput]_vars

\* The script runs to completion: Node runs the callback and every
\* filesystem call returns or throws, so a step that can be taken is taken.
SpecLive == InitOrder /\ [][NextOrder]_vars /\ WF_vars(NextOrder)

(***************************************************************************)
(* The run with each filesystem call split into its start and its          *)
(* settling, as the promise-based calls of the script are.                 *)
(***************************************************************************)

\* The call the script makes next in state s; "none" where the next step
\* makes no call.
NextCall(s) ==
  CASE CanMkdirArchive(s) -> <<"mkdir", exampleDir>>
    [] CanMove(s) -> <<"rename", CurDir(s)>>
    [] CanDelete(s) -> <<"rm", CurDir(s)>>
    [] CanMkdirApp(s) -> <<"mkdir", newAppDir>>
    [] s.pc = "writeIndex" -> <<"write", IndexFile>>
    [] s.pc = "writeLayout" -> <<"write", LayoutFile>>
    [] OTHER -> <<"none", "none">>

AwaitsNothing(q) == Len(q) < 2

\* await: the script goes on only when the calls in q have settled.
Awaits(q) == q = <<>>

\* The script starts its next call.
BeginCall ==
  /\ NextCall(Cur) # <<"none", "none">>
  /\ Awaits(inflight)
  /\ inflight' = Append(inflight, NextCall(Cur))
  /\ UNCHANGED <<resetVars, hookVars, themed, appVars>>

\* The oldest call in flight settles: it resolves, or it rejects into the
\* catch block.
EndCall ==
  /\ inflight # <<>>
  /\ Apply(StepOf(Cur, fault))
  /\ UNCHANGED answer

SkipAwait == Awaits(inflight) /\ Skip

NextAwait == QuestionChoice \/ SkipAwait \/ BeginCall \/ EndCall

SpecAwait == InitOrder /\ [][NextAwait]_vars

(***************************************************************************)
(* The colour-scheme hooks in a mounted component.                         *)
(***************************************************************************)

\* The script has not been started.
ResetIdle ==
  /\ fs = InitialFs({}, FALSE, {})
  /\ fs0 = fs
  /\ fault = NoFault
  /\ answer = <<>>
  /\ userInput = <<>>
  /\ pc = "prompt"
  /\ i = 1
  /\ ops = <<>>
  /\ reported = FALSE
  /\ exitCode = -1
  /\ inflight = <<>>

InitHooks ==
  /\ ResetIdle
  /\ scheme \in Schemes
  /\ HooksIdle
  /\ AppIdle

RenderEffectAlways ==
  /\ renders < MaxRenders
  /\ renders = 0 \/ dirty
  /\ rendered' = [rn |-> useRNColorScheme(scheme),
                  native |-> useColorScheme(scheme),
                  web |-> useColorSchemeWeb(hasHydrated, scheme),
                  hydrated |-> hasHydrated]
  /\ renders' = renders + 1
  /\ effectPending' = TRUE
  /\ dirty' = FALSE
  /\ \E props \in PropsSet, colorName \in ColorNames :
       themed' = [props |-> props, colorName |-> colorName,
                  colorScheme |-> useColorScheme(scheme),
                  result |-> useThemeColor(props, colorName, useColorScheme(scheme))]
  /\ UNCHANGED <<scheme, hasHydrated, resetVars, inflight, appVars>>

\* One render: both variants of the hook are called, and useThemeColor
\* with the props and colour name of the component; the first render
\* schedules the mount effect of the web variant.
Render ==
  /\ renders < MaxRenders
  /\ renders = 0 \/ dirty
  /\ rendered' = [rn |-> useRNColorScheme(scheme),
                  native |-> useColorScheme(scheme),
                  web |-> useColorSchemeWeb(hasHydrated, scheme),
                  hydrated |-> hasHydrated]
  /\ renders' = renders + 1
  /\ effectPending' = (effectPending \/ renders = 0)
  /\ dirty' = FALSE
  /\ \E props \in PropsSet, colorName \in ColorNames :
       themed' = [props |-> props, colorName |-> colorName,
                  colorScheme |-> useColorScheme(scheme),
                  result |-> useThemeColor(props, colorName, useColorScheme(scheme))]
  /\ UNCHANGED <<scheme, hasHydrated, resetVars, inflight, appVars>>

\* useEffect(() => { setHasHydrated(true); }, [])
HydrationEffect ==
  /\ effectPending
  /\ hasHydrated' = TRUE
  /\ effectPending' = FALSE
  /\ dirty' = TRUE
  /\ UNCHANGED <<scheme, renders, rendered, themed, resetVars, inflight, appVars>>

\* The user switches the system appearance; the framework re-renders.
SchemeChange ==
  /\ \E s \in Schemes \ {scheme} : scheme' = s
  /\ dirty' = (renders > 0)
  /\ UNCHANGED <<hasHydrated, effectPending, renders, rendered, themed>>
  /\ UNCHANGED <<resetVars, inflight, appVars>>

NextHooks == Render \/ HydrationEffect \/ SchemeChange

SpecHooks == InitHooks /\ [][NextHooks]_vars

(***************************************************************************)
(* AuthProvider and a component that uses useLocation, mounted together.   *)
(***************************************************************************)

InitApp ==
  /\ ResetIdle
  /\ scheme = "light"
  /\ HooksIdle
  /\ AppIdle

\* The mount effect of AuthProvider runs.
AuthEffect ==
  /\ auth.check = "effect"
  /\ auth' = AuthEffectStep(auth)
  /\ UNCHANGED <<resetVars, inflight, hookVars, themed, loc, lint>>

GetTokenSettles ==
  /\ auth.check = "getToken"
  /\ \E out \in TokenOutcomes : auth' = GetTokenStep(auth, out)
  /\ UNCHANGED <<resetVars, inflight, hookVars, themed, loc, lint>>

ValidateSettles ==
  /\ auth.check = "validateToken"
  /\ \E out \in ValidateOutcomes : auth' = ValidateStep(auth, out)
  /\ UNCHANGED <<resetVars, inflight, hookVars, themed, loc, lint>>

\* A consumer of the context calls signOut.
SignOut ==
  /\ auth.signOut # "removeToken"
  /\ auth.signOuts < MaxSignOuts
  /\ auth' = SignOutStep(auth)
  /\ UNCHANGED <<resetVars, inflight, hookVars, themed, loc, lint>>

RemoveTokenSettles ==
  /\ auth.signOut = "removeToken"
  /\ \E resolved \in BOOLEAN : auth' = RemoveTokenStep(auth, resolved)
  /\ UNCHANGED <<resetVars, inflight, hookVars, themed, loc, lint>>

\* The mount effect of useLocation runs.
LocationEffect ==
  /\ loc.effect = "scheduled"
  /\ loc' = LocationEffectStep(loc)
  /\ UNCHANGED <<resetVars, inflight, hookVars, themed, auth, lint>>

PositionResolves ==
  /\ loc.request = "pending"
  /\ \E result \in Positions : loc' = PositionStep(loc, result)
  /\ UNCHANGED <<resetVars, inflight, hookVars, themed, auth, lint>>

PositionRejects ==
  /\ loc.request = "pending"
  /\ loc' = PositionErrorStep(loc)
  /\ UNCHANGED <<resetVars, inflight, hookVars, themed, auth, lint>>

\* The component unmounts: React runs the cleanup of the effect.
Unmount ==
  /\ loc.effect = "ran"
  /\ ~loc.cleaned
  /\ loc' = CleanupStep(loc)
  /\ UNCHANGED <<resetVars, inflight, hookVars, themed, auth, lint>>

NextApp ==
  \/ AuthEffect
  \/ GetTokenSettles
  \/ ValidateSettles
  \/ SignOut
  \/ RemoveTokenSettles
  \/ LocationEffect
  \/ PositionResolves
  \/ PositionRejects
  \/ Unmount

SpecApp == InitApp /\ [][NextApp]_vars

(***************************************************************************)
(* ESLint computing the rules in force for one file.                       *)
(***************************************************************************)

InitLint ==
  /\ ResetIdle
  /\ scheme = "light"
  /\ HooksIdle
  /\ auth = AuthInit
  /\ loc = LocInit
  /\ lint \in [file : LintFiles, ext : ExtSet, idx : {0}, rules : {Unset},
               ignored : {FALSE}]

Merge ==
  /\ lint.idx < Len(configArray)
  /\ lint' = MergeStep(lint)
  /\ UNCHANGED <<resetVars, inflight, hookVars, themed, auth, loc>>

NextLint == Merge

SpecLint == InitLint /\ [][NextLint]_vars

TypeOK ==
  /\ pc \in {"prompt", "loop", "writeIndex", "writeLayout", "done", "failed"}
  /\ i \in 1..(Len(oldDirs) + 1)
  /\ exitCode \in {-1, 0, 1}
  /\ reported \in BOOLEAN

(***************************************************************************)
(* Vocabulary of the properties.                                           *)
(***************************************************************************)

\* Every source directory exists at the start and holds its marker file.
AllMarked(g) ==
  \A d \in SourceSet :
    /\ <<d>> \in g.dirs
    /\ <<d, MarkerFile>> \in FilePaths(g)
    /\ g.files[<<d, MarkerFile>>] = d

NoneExists(g) == \A d \in SourceSet : ~Exists(g, <<d>>)

\* The marker file of d sits at path p.
MarkerAt(g, p, d) == p \in FilePaths(g) /\ g.files[p] = d

\* Some marker file sits somewhere.
MarkerAnywhere(g) ==
  \E p \in FilePaths(g) : p[Len(p)] = MarkerFile /\ g.files[p] \in SourceSet

Succeeded == pc = "done"

Ended == pc \in {"done", "failed"}

Attempted(kind) == \E k \in 1..Len(ops) : ops[k][1] = kind

\* The line is blank, or one "y" or "Y" with blanks around it.
Affirmative(line) ==
  \/ \A k \in 1..Len(line) : line[k] \in Whitespace
  \/ \E k \in 1..Len(line) :
       /\ line[k] \in {"y", "Y"}
       /\ \A j \in 1..Len(line) : j # k => line[j] \in Whitespace

Under(g, p) == {q \in FilePaths(g) \cup g.dirs : IsPrefix(p, q)}

(***************************************************************************)
(* Properties.                                                             *)
(***************************************************************************)

\* C1 (preserve path): when every source directory started with its marker
\* file and a run that preserves has succeeded, each marker file sits at
\* app-example/<dir>/marker.txt and none sits at <dir>/marker.txt.
C1_PreservePath ==
  (Succeeded /\ Preserve(userInput) /\ AllMarked(fs0)) =>
    \A d \in SourceSet :
      /\ MarkerAt(fs, <<"app-example", d, MarkerFile>>, d)
      /\ <<d, MarkerFile>> \notin FilePaths(fs)

C1_Witness ==
  /\ Succeeded /\ Preserve(userInput) /\ AllMarked(fs0)
  /\ MarkerAt(fs, <<"app-example", "scripts", MarkerFile>>, "scripts")
  /\ Attempted("rename")

\* C2 (delete path): when every source directory started with its marker
\* file and a run that deletes has succeeded, no marker file is left at any
\* path, original or archived.
C2_DeletePath ==
  (Succeeded /\ ~Preserve(userInput) /\ AllMarked(fs0)) => ~MarkerAnywhere(fs)

C2_Witness ==
  /\ Succeeded /\ ~Preserve(userInput) /\ AllMarked(fs0)
  /\ Attempted("rm") /\ ~MarkerAnywhere(fs)

\* C3 as stated: after a successful run no directory of the source set
\* exists at its original location.
C3_NoSourceDirLeft ==
  Succeeded => \A d \in SourceSet : ~Exists(fs, <<d>>)

\* C3 as amended: after a successful run no directory of the source set
\* other than app exists at its original location, and app, which is
\* created anew as the entry-point directory, holds no file or directory
\* it held before the run.
C3_SourceDirsGone ==
  Succeeded =>
    /\ \A d \in SourceSet \ {"app"} : ~Exists(fs, <<d>>)
    /\ \A p \in Under(fs, <<"app">>) \ {<<"app">>} :
         ~(p \in FilePaths(fs0) /\ fs0.files[p] = fs.files[p]) /\ p \notin fs0.dirs

C3_Witness ==
  /\ Succeeded
  /\ {<<"app">>, <<"hooks">>, <<"scripts">>} \subseteq fs0.dirs
  /\ <<"app">> \in fs.dirs
  /\ ~Exists(fs, <<"scripts">>)

\* C4 (entry point): after a successful run the directory app exists and
\* holds exactly the files index.tsx and _layout.tsx, and nothing else.
C4_EntryPoint ==
  Succeeded =>
    /\ <<"app">> \in fs.dirs
    /\ Under(fs, <<"app">>) =
         {<<"app">>, <<"app", "index.tsx">>, <<"app", "_layout.tsx">>}
    /\ {<<"app", "index.tsx">>, <<"app", "_layout.tsx">>} \subseteq FilePaths(fs)

C4_Witness ==
  /\ Succeeded
  /\ <<"app", MarkerFile>> \in FilePaths(fs0)
  /\ <<"app", "_layout.tsx">> \in FilePaths(fs)

\* C5 (fatal halt): when the move or delete of a source directory has
\* failed, neither replacement file was written and the exit code is not
\* zero.
C5_FatalHalt ==
  (pc = "failed" /\ ops # <<>> /\ ops[Len(ops)][1] \in {"rename", "rm"}) =>
    /\ ~Attempted("write")
    /\ <<newAppDir, LayoutFile>> \notin FilePaths(fs)
    /\ exitCode # 0

\* C6 (exit codes): once the process has ended, its exit code is zero
\* exactly when the run completed without a filesystem error.
C6_ExitCodes ==
  Ended => ((exitCode = 0) <=> (pc = "done" /\ ~reported))

\* C7 (default confirmation): a run on an empty line ends having attempted
\* the same filesystem calls, with the same outcome and the same
\* filesystem, as the run on the line "y" from the same start.
C7_DefaultConfirmation ==
  (Ended /\ answer = <<>>) =>
    LET r == RunFrom(fs0, fault, <<"y">>)
    IN r.ops = ops /\ r.fs = fs /\ r.pc = pc

C7_Witness ==
  /\ Ended /\ answer = <<>>
  /\ Attempted("rename")
  /\ \E d \in SourceSet : <<"app-example", d, MarkerFile>> \in FilePaths(fs)

\* C8 (two outcomes): once the line is read the run proceeds, preserving
\* when the line is blank or is the token y (in either case, blanks
\* around it), and deleting for every other line; a preserving run never
\* deletes and a deleting run never moves or creates the archive.
C8_TwoOutcomes ==
  pc # "prompt" =>
    /\ Preserve(userInput) <=> Affirmative(answer)
    /\ Affirmative(answer) => ~Attempted("rm")
    /\ ~Affirmative(answer) =>
         /\ ~Attempted("rename")
         /\ <<"mkdir", "app-example">> \notin {ops[k] : k \in 1..Len(ops)}
    /\ Ended \/ pc \in {"loop", "writeIndex", "writeLayout"}

C8_Witness ==
  /\ answer = <<"x">>
  /\ Attempted("rm")
  /\ Succeeded

\* C9 (skip logic): no move or delete is attempted on a source directory
\* that was absent; and a run on a project with no source directory,
\* where creating app and writing the two files do not fail, succeeds
\* with both replacement files written.
C9_SkipLogic ==
  /\ \A k \in 1..Len(ops) :
       ops[k][1] \in {"rename", "rm"} => Exists(fs0, <<ops[k][2]>>)
  /\ (NoneExists(fs0) /\ pc \notin {"prompt", "loop"}) =>
       /\ ~Attempted("rename") /\ ~Attempted("rm")
       /\ (pc = "failed" => fault \in {<<"mkdir", "app">>, <<"write", "index.tsx">>,
                                       <<"write", "_layout.tsx">>})
  /\ (NoneExists(fs0) /\ Succeeded) =>
       {<<"app", "index.tsx">>, <<"app", "_layout.tsx">>} \subseteq FilePaths(fs)

C9_Witness ==
  /\ NoneExists(fs0) /\ Succeeded /\ ~reported
  /\ {<<"app", "index.tsx">>, <<"app", "_layout.tsx">>} \subseteq FilePaths(fs)

\* C10 (replacement content): after a successful run app/index.tsx and
\* app/_layout.tsx hold exactly the two literal texts of the script,
\* whichever choice was made and whatever was at those paths before.
C10_ReplacementContent ==
  Succeeded =>
    /\ MarkerAt(fs, <<"app", "index.tsx">>,
         "import { Text, View } from \"react-native\";\n\nexport default function Index() {\n  return (\n    <View style={{ flex: 1, justifyContent: \"center\", alignItems: \"center\" }}>\n      <Text>Edit app/index.tsx to edit this screen.</Text>\n    </View>\n  );\n}")
    /\ MarkerAt(fs, <<"app", "_layout.tsx">>,
         "import { Stack } from \"expo-router\";\n\nexport default function RootLayout() {\n  return <Stack />;\n}")

C10_Witness ==
  /\ Succeeded
  /\ MarkerAt(fs0, <<"app", "index.tsx">>, StaleContent)
  /\ ~MarkerAt(fs, <<"app", "index.tsx">>, StaleContent)
  /\ ~Preserve(userInput)

\* A call of the log that did not throw: every call but the last one of a
\* failed run.
Completed(k) == k \in 1..Len(ops) /\ (k < Len(ops) \/ pc # "failed")

\* The run the script makes when started again on the present filesystem
\* with the same answer and no failing call.
SecondRun == RunFrom(fs, NoFault, answer)

\* C11 as stated: a second run on the result of a successful run, same
\* choice, succeeds and leaves the filesystem as the first run left it,
\* for the preserve choice as for the delete choice.
C11_Idempotent ==
  Succeeded => (SecondRun.pc = "done" /\ SecondRun.fs = fs)

\* C11 as amended: a second run on the result of a successful run, same
\* choice, succeeds and leaves the filesystem unchanged exactly when the
\* choice is delete; with the preserve choice the second run meets the
\* app directory the first run created and either fails moving it onto
\* the archived app or moves it into the archive.
C11_IdempotentOnDelete ==
  Succeeded =>
    ((SecondRun.pc = "done" /\ SecondRun.fs = fs) <=> ~Preserve(userInput))

C11_Witness ==
  /\ Succeeded /\ ~Preserve(userInput) /\ Attempted("rm")
  /\ <<"rm", "app">> \in {SecondRun.ops[k] : k \in 1..Len(SecondRun.ops)}
  /\ SecondRun.pc = "done" /\ SecondRun.fs = fs

\* C12 (no rollback): when a directory operation (a move, a delete, the
\* creation of a directory) has failed, every source directory whose move
\* or delete completed before the failure is still absent from its
\* original path, and a moved one still sits under app-example.
C12_NoRollback ==
  (pc = "failed" /\ ops[Len(ops)][1] \in {"rename", "rm", "mkdir"}) =>
    \A k \in 1..Len(ops) :
      (Completed(k) /\ ops[k][1] \in {"rename", "rm"}) =>
        /\ ~Exists(fs, <<ops[k][2]>>)
        /\ ops[k][1] = "rename" => <<"app-example", ops[k][2]>> \in fs.dirs

C12_Witness ==
  /\ pc = "failed" /\ Len(ops) >= 3
  /\ ops[Len(ops)][1] = "rename"
  /\ Completed(2) /\ ops[2][1] = "rename"
  /\ ~Exists(fs, <<ops[2][2]>>)

\* C13 (abort on first error): once an error has been reported the run
\* is halted; the call that threw is the last call attempted and was
\* attempted once, and when it was the move or delete of a source
\* directory that directory is still in place, no directory later in
\* oldDirs was moved or deleted, app was not created and nothing was
\* written.
C13_AbortOnFirstError ==
  reported =>
    /\ pc = "failed"
    /\ ops # <<>>
    /\ \A j, k \in 1..Len(ops) : ops[j] = ops[k] => j = k
    /\ ops[Len(ops)][1] \in {"rename", "rm"} =>
         /\ ops[Len(ops)][2] = oldDirs[i]
         /\ Exists(fs, <<oldDirs[i]>>)
         /\ \A k \in 1..Len(ops) :
              ops[k][1] \in {"rename", "rm"} \/ ops[k] = <<"mkdir", "app-example">>
         /\ \A k \in 1..Len(ops) : \A j \in (i + 1)..Len(oldDirs) :
              ops[k][2] # oldDirs[j]
         /\ \A j \in (i + 1)..Len(oldDirs) :
              Exists(fs0, <<oldDirs[j]>>) => Exists(fs, <<oldDirs[j]>>)

C13_Witness ==
  /\ reported /\ pc = "failed"
  /\ ops[Len(ops)] = <<"rm", "components">>
  /\ Exists(fs0, <<"scripts">>) /\ Exists(fs, <<"scripts">>)
  /\ ~Exists(fs, <<"app">>) /\ Exists(fs0, <<"app">>)

OpsLog == {ops[k] : k \in 1..Len(ops)}

\* C14 (archive collision): when a preserving run reaches a source
\* directory whose name is already an entry of app-example, the move
\* throws: the run halts with the directory and the archived entry both
\* untouched, and the exit code is not zero.
C14_ArchiveCollision ==
  \A d \in SourceSet :
    (/\ Affirmative(answer)
     /\ <<"rename", d>> \in OpsLog
     /\ <<"app-example", d>> \in fs0.dirs) =>
      /\ pc = "failed"
      /\ ops[Len(ops)] = <<"rename", d>>
      /\ Under(fs, <<"app-example", d>>) = Under(fs0, <<"app-example", d>>)
      /\ Under(fs, <<d>>) = Under(fs0, <<d>>)
      /\ exitCode # 0

\* C15 (archive directory): in a preserving run app-example exists when a
\* move is attempted, having been there from the start or created by an
\* earlier call of the run; an archive that exists at the start is no
\* error (its creation is never the call that throws); and a directory
\* whose move has completed sits, with its content, at app-example/<dir>.
C15_ArchiveCreated ==
  /\ \A k \in 1..Len(ops) :
       ops[k][1] = "rename" =>
         /\ <<"app-example">> \in fs.dirs
         /\ \/ <<"app-example">> \in fs0.dirs
            \/ \E j \in 1..(k - 1) : ops[j] = <<"mkdir", "app-example">>
         /\ Completed(k) =>
              /\ <<"app-example", ops[k][2]>> \in fs.dirs
              /\ \A p \in Under(fs0, <<ops[k][2]>>) :
                   /\ Exists(fs, <<"app-example">> \o p)
                   /\ p \in FilePaths(fs0) =>
                        MarkerAt(fs, <<"app-example">> \o p, fs0.files[p])
  /\ (<<"app-example">> \in fs0.dirs /\ pc = "failed") =>
       ops[Len(ops)] # <<"mkdir", "app-example">>

C15_Witness ==
  /\ <<"app-example">> \notin fs0.dirs
  /\ Len(ops) >= 3
  /\ ops[1] = <<"mkdir", "app-example">>
  /\ ops[2] = <<"rename", "app">> /\ ops[3] = <<"rename", "hooks">>
  /\ Completed(3)
  /\ MarkerAt(fs, <<"app-example", "hooks", MarkerFile>>, "hooks")

\* The orders in which the loop could run over the source list.
Orders ==
  {o \in [1..Len(oldDirs) -> {oldDirs[k] : k \in 1..Len(oldDirs)}] :
     \A j, k \in 1..Len(oldDirs) : o[j] = o[k] => j = k}

\* C16 as stated: run over any permutation of the source list, the script
\* ends with the same filesystem and the same outcome as in the declared
\* order.
C16_OrderIndependent ==
  Ended =>
    \A o \in Orders :
      LET r == RunInOrder(o, fs0, fault, answer)
      IN r.pc = pc /\ r.fs = fs

\* C16 as amended: run over any permutation of the source list, the
\* script ends with the same outcome (success or failure) as in the
\* declared order, and with the same filesystem when that outcome is
\* success; after a failure the directories already moved or deleted
\* depend on the order.
C16_OrderIndependentOnSuccess ==
  Ended =>
    \A o \in Orders :
      LET r == RunInOrder(o, fs0, fault, answer)
      IN r.pc = pc /\ (pc = "done" => r.fs = fs)

C16_Witness ==
  /\ pc = "failed"
  /\ {<<"app">>, <<"scripts">>} \subseteq fs0.dirs
  /\ ops[Len(ops)] = <<"rm", "scripts">>
  /\ \E o \in Orders :
       LET r == RunInOrder(o, fs0, fault, answer)
       IN r.pc = "failed" /\ r.fs # fs

\* C18 (entry point before writes): a replacement file is written only
\* after app has been created, which happens after every call on a source
\* directory or on the archive; and while a write is pending app exists
\* and holds nothing but replacement files already written.
C18_EntryPointBeforeWrites ==
  /\ \A k \in 1..Len(ops) :
       ops[k][1] = "write" =>
         \E j \in 1..(k - 1) :
           /\ ops[j] = <<"mkdir", "app">>
           /\ \A n \in 1..Len(ops) :
                (ops[n][1] \in {"rename", "rm"} \/ ops[n] = <<"mkdir", "app-example">>)
                  => n < j
  /\ pc \in {"writeIndex", "writeLayout"} =>
       /\ <<"app">> \in fs.dirs
       /\ Under(fs, <<"app">>) =
            {<<"app">>} \cup (IF pc = "writeLayout" THEN {<<"app", "index.tsx">>} ELSE {})
       /\ \A p \in Under(fs, <<"app">>) \cap FilePaths(fs) : fs.files[p] # StaleContent

C18_Witness ==
  /\ pc = "writeLayout"
  /\ <<"app">> \notin fs0.dirs
  /\ <<"hooks">> \in fs0.dirs
  /\ <<"app", "index.tsx">> \in FilePaths(fs)

\* C19 (conservation): from the moment a blank or "y" answer is read, in
\* every state of the run, finished, failed or under way, each file a
\* source directory held at the start is, with its content, at exactly
\* one of its original path and its path under app-example.
C19_PreserveConservation ==
  (pc # "prompt" /\ Affirmative(answer)) =>
    \A d \in SourceSet : \A p \in Under(fs0, <<d>>) \cap FilePaths(fs0) :
      MarkerAt(fs, p, fs0.files[p]) # MarkerAt(fs, <<"app-example">> \o p, fs0.files[p])

C19_Witness ==
  /\ pc = "failed" /\ Affirmative(answer)
  /\ MarkerAt(fs, <<"app-example", "app", MarkerFile>>, "app")
  /\ MarkerAt(fs, <<"hooks", MarkerFile>>, "hooks")
  /\ ops[Len(ops)] = <<"rename", "hooks">>

\* C20 (answer first): while the answer has not been read no filesystem
\* call has been attempted and the filesystem is as it was at the start.
C20_NoMutationBeforeAnswer ==
  pc = "prompt" => (ops = <<>> /\ fs = fs0)

C20_Witness ==
  /\ pc # "prompt"
  /\ Len(ops) = 1
  /\ fs # fs0

\* C17 as stated: at every render each colour-scheme hook, the web variant
\* included, returns what the framework's primitive returns.
C17_PassThrough ==
  renders > 0 => (rendered.native = rendered.rn /\ rendered.web = rendered.rn)

\* C17 as amended: at every render the native hook returns what the
\* framework's primitive returns; the web variant does so once its
\* hydration effect has run, and returns 'light' at every render before.
C17_PassThroughOnceHydrated ==
  renders > 0 =>
    /\ rendered.native = rendered.rn
    /\ rendered.hydrated => rendered.web = rendered.rn
    /\ ~rendered.hydrated => rendered.web = "light"

C17_Witness ==
  /\ renders > 1
  /\ rendered.hydrated
  /\ rendered.rn = "dark"
  /\ rendered.web = "dark" /\ rendered.native = "dark"


\* Position of a source directory in the list the loop runs over.
DirIndex(d) == CHOOSE k \in 1..Len(oldDirs) : oldDirs[k] = d

IsDirOp(op) == op[1] \in {"rename", "rm"}

\* C21 (sequential calls): at most one filesystem call of a run is in
\* flight at any time; the calls on source directories are logged in the
\* order of the list; and while the call on one source directory is in
\* flight, every call logged before it is on an earlier directory and has
\* settled without error.
C21_Sequential ==
  /\ Len(inflight) <= 1
  /\ \A m, n \in 1..Len(ops) :
       (m < n /\ IsDirOp(ops[m]) /\ IsDirOp(ops[n]))
         => DirIndex(ops[m][2]) < DirIndex(ops[n][2])
  /\ \A k \in 1..Len(inflight) :
       IsDirOp(inflight[k]) =>
         /\ pc = "loop"
         /\ \A n \in 1..Len(ops) :
              IsDirOp(ops[n]) =>
                DirIndex(ops[n][2]) < DirIndex(inflight[k][2])

\* The move of hooks is in flight after the moves of app and components
\* have settled.
C21_Witness ==
  /\ inflight = << <<"rename", "hooks">> >>
  /\ <<"rename", "app">> \in OpsLog
  /\ <<"rename", "components">> \in OpsLog

\* The filesystem calls of a run that succeeded end with the creation of
\* app and the two writes.
AllStepsDone ==
  /\ Len(ops) >= 3
  /\ ops[Len(ops) - 2] = <<"mkdir", newAppDir>>
  /\ ops[Len(ops) - 1] = <<"write", IndexFile>>
  /\ ops[Len(ops)] = <<"write", LayoutFile>>

\* C22 (termination): once the confirmation line has been read the run
\* eventually ends; it ends in success with all steps done or in a
\* reported error; the loop never goes back in the list, and no source
\* directory is the subject of two filesystem calls.
C22_Termination ==
  /\ (pc # "prompt") ~> Ended
  /\ [](/\ pc = "done" => AllStepsDone
        /\ pc = "failed" => reported
        /\ \A m, n \in 1..Len(ops) :
             (m # n /\ IsDirOp(ops[m]) /\ IsDirOp(ops[n])) => ops[m][2] # ops[n][2])
  /\ [][pc # "prompt" => i' >= i]_vars

\* A run that ended in success after a call on each of the five source
\* directories.
C22_Witness ==
  /\ Succeeded
  /\ \A d \in SourceSet : \E k \in 1..Len(ops) : IsDirOp(ops[k]) /\ ops[k][2] = d

\* The files and directories of g at or beneath p, with the contents of
\* the files.
Subtree(g, p) ==
  [dirs |-> {q \in g.dirs : IsPrefix(p, q)},
   files |-> [q \in {r \in FilePaths(g) : IsPrefix(p, r)} |-> g.files[q]]]

\* C23 (archive untouched on delete): after a negative answer the run
\* makes no filesystem call on app-example, and at every point of the run,
\* ended or not, in success or in failure, app-example exists exactly when
\* it did before and holds the same directories and files with the same
\* contents.
C23_ArchiveUntouchedOnDelete ==
  (pc # "prompt" /\ ~Affirmative(answer)) =>
    /\ Subtree(fs, <<"app-example">>) = Subtree(fs0, <<"app-example">>)
    /\ <<"mkdir", "app-example">> \notin OpsLog
    /\ ~Attempted("rename")

\* A deleting run that has ended, after at least one deletion, in a project
\* that had an archive with an entry in it.
C23_Witness ==
  /\ Ended
  /\ ~Affirmative(answer)
  /\ Attempted("rm")
  /\ \E d \in SourceSet : <<"app-example", d>> \in fs0.dirs

\* The root names a run may touch: the five source directories (app is
\* also the entry-point directory) and the archive.
NamedRoots == {"app", "components", "hooks", "constants", "scripts", "app-example"}

\* The part of g outside the named roots.
Outside(g) ==
  [dirs |-> {q \in g.dirs : q[1] \notin NamedRoots},
   files |-> [q \in {r \in FilePaths(g) : r[1] \notin NamedRoots} |-> g.files[q]]]

\* C24 (frame): at every point of every run, whatever the answer and
\* whether or not a call fails, each path whose root name is not a source
\* directory, the archive or the entry-point directory exists exactly when
\* it did before the run, with the same content.
C24_Frame == Outside(fs) = Outside(fs0)

\* A run that has ended after moving or deleting, in a project that holds
\* assets/icon.png and package.json.
C24_Witness ==
  /\ Ended
  /\ Attempted("rename") \/ Attempted("rm")
  /\ {<<"assets", "icon.png">>, <<"package.json">>} \subseteq FilePaths(fs0)
  /\ fs # fs0

\* The line holds nothing but blanks.
Blank(line) == \A k \in 1..Len(line) : line[k] \in Whitespace

\* The line is one character of T with nothing but blanks around it.
OneToken(line, T) ==
  \E k \in 1..Len(line) :
    /\ line[k] \in T
    /\ \A j \in 1..Len(line) : j # k => line[j] \in Whitespace

\* The line the claim says the answer behaves as.
Canonical(line) ==
  IF Blank(line) THEN <<>>
  ELSE IF OneToken(line, {"y", "Y"}) THEN <<"y">>
  ELSE IF OneToken(line, {"n", "N"}) THEN <<"n">>
  ELSE line

\* C25 (normalisation): the normalised answer has no blank at either end
\* and no upper-case letter; a line of blanks is interpreted as the empty
\* line is, and "Y" or "N" with or without blanks around it as "y" or "n"
\* is: the normalised answer is the same, and the run ends with the same
\* calls, the same filesystem and the same outcome.
C25_Normalised ==
  pc # "prompt" =>
    LET r == RunFrom(fs0, fault, Canonical(answer))
    IN /\ userInput # <<>>
       /\ Head(userInput) \notin Whitespace
       /\ userInput[Len(userInput)] \notin Whitespace
       /\ \A k \in 1..Len(userInput) : userInput[k] \notin {"Y", "N"}
       /\ userInput = r.userInput
       /\ Ended => (fs = r.fs /\ ops = r.ops /\ pc = r.pc)

\* The run has ended after moving directories on the answer " Y".
C25_Witness ==
  /\ Ended
  /\ answer = <<" ", "Y">>
  /\ Attempted("rename")

\* C26 (hydration of the web hook): the flag starts false; a render made
\* while it is false returns 'light' from the web hook whatever the system
\* scheme is, a render made once it is true returns the scheme of the
\* framework; the flag never goes from true to false, and once it is true
\* the effect that sets it is never scheduled again.
C26_Hydration ==
  /\ (renders = 0 => ~hasHydrated)
  /\ [][/\ renders' > renders =>
             /\ rendered'.hydrated = hasHydrated
             /\ rendered'.web = IF hasHydrated THEN useRNColorScheme(scheme) ELSE "light"
        /\ hasHydrated => (hasHydrated' /\ ~effectPending')]_vars

\* After the effect has run, a render with the system scheme unset
\* returned null from the web hook.
C26_Witness ==
  /\ hasHydrated
  /\ renders >= 2
  /\ rendered.hydrated
  /\ rendered.web = "null"
  /\ scheme = "null"

\* The theme of the last call of useThemeColor as the claim defines it,
\* and the other theme.
ThemeOf(colorScheme) == IF colorScheme = "null" THEN "light" ELSE colorScheme

OtherTheme(theme) == IF theme = "light" THEN "dark" ELSE "light"

C28_AuthLaunch ==
  /\ auth.check # "done" => auth.isLoading
  /\ auth.check = "done" => ~auth.isLoading
  /\ auth.user # "null" => (auth.token = "tok" /\ auth.validated)
  /\ auth.signOut \in {"done", "rejected"} => auth.afterSignOut = "null"

\* C29 (cleanup of useLocation): in every interleaving of the effect, the
\* settling of the position request and the unmount, setLocation is never
\* called once the cleanup has run, so a result that arrives after the
\* unmount leaves location as it was.
C29_NoSetAfterCleanup ==
  /\ loc.lateSets = 0
  /\ (loc.cleaned /\ loc.sets = 0) => loc.location = "null"

\* The request resolved after the cleanup had run, and its result was
\* discarded.
C29_Witness ==
  /\ loc.cleaned
  /\ loc.request = "resolved"
  /\ loc.sets = 0

\* C30 (Prettier last): in the array, every entry that sets rules other
\* than the Prettier entry comes before it (the base, Expo and React
\* entries), the one entry after it is the ignores-only block, and from
\* the merge of the Prettier entry on every formatting rule is off for the
\* file, whatever the earlier entries turned on.
C30_PrettierLast ==
  LET n == Len(configArray)
      P == CHOOSE k \in 1..n : configArray[k] = "prettier"
  IN /\ \A k \in 1..n : (SetsRules(configArray[k]) /\ k # P) => k < P
     /\ {configArray[k] : k \in 1..(P - 1)} = {"js", "expo", "react"}
     /\ P = n - 1
     /\ IgnoresOnly(configArray[n])
     /\ lint.idx >= P => \A r \in PrettierRules : lint.rules[r] = "off"

\* All entries are merged for a script file for which the Expo set turned
\* indent on and the React set turned react/jsx-indent on.
C30_Witness ==
  /\ lint.idx = Len(configArray)
  /\ lint.file = "app/index.tsx"
  /\ lint.ext.expo["indent"] = "error"
  /\ lint.ext.react["react/jsx-indent"] = "error"
  /\ lint.rules["indent"] = "off"

====
